---- MODULE Spec2Model ----
(***************************************************************************)
(* LearnLoop backend: the moderation core (report ledger, auto-hide,       *)
(* admin review) over the relational schema, at the granularity of the     *)
(* database statements of each request.                                    *)
(*                                                                         *)
(* The database runs transactions at READ COMMITTED: a statement sees the  *)
(* rows committed before it starts plus the rows its own transaction has   *)
(* written; an UPDATE holds the row's lock until its transaction ends.     *)
(***************************************************************************)
EXTENDS Integers, FiniteSets, Sequences, Bags, TLC

\* ---------------------------------------------------------------- bounds
NumUsers == 7

\* ------------------------------------------------------------- constants
REPORT_THRESHOLD == 5

\* A nullable integer column that holds no value (Int? in the schema; ids
\* are positive serials, so 0 never names a row).
NULL == 0

Users == 1..NumUsers
\* users.isAdmin is false by default; one account has been granted it.
Admins == {3}
Posts == {1}
CommentIds == {1}
\* the request handlers that can be in flight at the same time
Txs == {1, 2}
\* the users that write comments in the runs explored
Commenters == {2}

\* posts.authorId of the posts that exist (post creation is not part of
\* the moderation core).
PostAuthor == [p \in Posts |-> 1]

VARIABLES
    postDeleted,   \* posts.deletedAt IS NOT NULL, per post
    postHidden,    \* posts.isHidden, per post
    comments,      \* comment id -> [authorId, postId, isHidden, content], NoComment when no such row
    nextCommentId, \* the comments.id serial
    reports,       \* the committed rows of the reports table: a bag of [reporterId, postId, commentId]
    tx,            \* per handler in flight: its position, inputs, observed count and response
    reported,      \* the content item the run's report traffic is aimed at
    others,        \* the rows of posts that the run's report traffic leaves alone
    response,      \* the response of the listing request being served, NoResponse when none is
    votes,         \* the rows of the votes table that name a comment: [userId, commentId]
    users,         \* the rows of the users table that the bootstrap looks for or creates
    boot,          \* per run of bootstrapSystemUsers: its position, what it found and created
    now,           \* the time new Date() returns
    token          \* the verification token issued last and the last check of its expiry

vars == <<postDeleted, postHidden, comments, nextCommentId, reports, tx, reported, others, response,
          votes, users, boot, now, token>>

\* ------------------------------------------------------------ the schema

Row(u, p, c) == [reporterId |-> u, postId |-> p, commentId |-> c]

Target(p, c) == [postId |-> p, commentId |-> c]

IdleTx == [pc |-> "idle", op |-> "none", userId |-> NULL, postId |-> NULL,
           commentId |-> NULL, reason |-> "none", count |-> 0, status |-> 0]

\* no row of comments has this id
NoComment == [authorId |-> NULL, postId |-> NULL, isHidden |-> FALSE, content |-> <<>>]

\* the admin check passing every authenticated user
isAdmin_Anyone(u) == TRUE

isAdmin(u) == u \in Admins

\* a row of posts / comments with this id exists
PostExists(p) == p \in Posts
CommentExists(c) == c \in DOMAIN comments /\ comments[c] # NoComment

\* the check of the target ids letting both through
ExactlyOneTarget_AtLeastOne(p, c) == p # NULL \/ c # NULL

\* exactly one of postId / commentId is supplied
ExactlyOneTarget(p, c) == (p # NULL) # (c # NULL)

\* the target exists and is not soft-deleted (comments are hard-deleted,
\* so an existing comment is live)
TargetLive(p, c) ==
    IF p # NULL THEN PostExists(p) /\ ~postDeleted[p]
                ELSE CommentExists(c)

AuthorOf(p, c) ==
    IF p # NULL THEN PostAuthor[p] ELSE comments[c].authorId

IsHidden(p, c) ==
    IF p # NULL THEN postHidden[p] ELSE comments[c].isHidden

\* the rows of bag b that reference the target
RowsOf(b, p, c) == {r \in BagToSet(b) : r.postId = p /\ r.commentId = c}

RECURSIVE SumCopies(_, _)
SumCopies(b, S) ==
    IF S = {} THEN 0
    ELSE LET r == CHOOSE x \in S : TRUE
         IN CopiesIn(r, b) + SumCopies(b, S \ {r})

\* tx.report.count({ where: { postId } }) over the committed rows
CommittedCount(p, c) == SumCopies(reports, RowsOf(reports, p, c))


\* ------------------------------------------------- POST /api/reports

\* the self-report check left out
IsSelfReport_Never(u, p, c) == FALSE

\* 403 - Cannot report your own content
IsSelfReport(u, p, c) == AuthorOf(p, c) = u

\* 409 - Already reported this content (the handler's look-up of an
\* earlier report by this reporter against this target)
AlreadyReported(u, p, c) == CopiesIn(Row(u, p, c), reports) > 0

\* the report reasons, and the reasons the requests of a run give
Reasons == {"SPAM", "INAPPROPRIATE", "HARASSMENT", "MISINFORMATION", "OFF_TOPIC", "OTHER"}
RequestReasons == {"SPAM", "NOT_A_REASON"}

\* the users whose requests give an unknown reason in the runs explored
Careless == {2}

\* The handler's checks, all made before the transaction starts; 0 when
\* the request passes them.
SubmitStatus(u, p, c, reason) ==
    IF ~ExactlyOneTarget(p, c) THEN 400
    ELSE IF reason \notin Reasons THEN 400
    ELSE IF ~TargetLive(p, c) THEN 404
    ELSE IF IsSelfReport(u, p, c) THEN 403
    ELSE IF AlreadyReported(u, p, c) THEN 409
    ELSE 0

\* the targets the requests of a run name: the reported item, both ids at
\* once, and no id at all
RequestTargets ==
    {reported}
      \cup {Target(p, c) : p \in Posts, c \in CommentIds}
      \cup {Target(NULL, NULL)}

\* a report by u against the target is on file or on its way
HasReport(u, p, c) ==
    \/ CopiesIn(Row(u, p, c), reports) > 0
    \/ \E t \in Txs : /\ tx[t].pc \in {"validated", "inserted", "counted", "updated"}
                       /\ tx[t].userId = u /\ tx[t].postId = p /\ tx[t].commentId = c

\* The users whose requests a state admits.  Reporters are interchangeable,
\* so a run admits them in the order of their ids: the reported item's
\* author, every user with a report on file or on its way, and the first
\* user without one.
RequestUsers ==
    LET p == reported.postId
        c == reported.commentId
        known == {u \in Users : HasReport(u, p, c)} \cup ({AuthorOf(p, c)} \cap Users)
        fresh == Users \ known
    IN known \cup {u \in fresh : \A v \in fresh : u <= v}

Done(op, u, p, c, st) ==
    [pc |-> "done", op |-> op, userId |-> u, postId |-> p,
     commentId |-> c, reason |-> "none", count |-> 0, status |-> st]

\* a transaction that has written and not yet ended
InTx(t) == tx[t].pc \in {"inserted", "counted", "updated"}

\* the report row transaction t has inserted
TxRow(t) == Row(tx[t].userId, tx[t].postId, tx[t].commentId)

\* the row lock an UPDATE of the item takes, held until the transaction ends
LockHeld(p, c) ==
    \E t \in Txs : tx[t].pc = "updated" /\ tx[t].postId = p /\ tx[t].commentId = c

\* the key-share lock an inserted report holds on the row it references
Referenced(p, c) ==
    \E t \in Txs : InTx(t) /\ tx[t].postId = p /\ tx[t].commentId = c

\* the table without its unique indexes
UniqueViolation_None(r) == FALSE

\* @@unique([reporterId, postId]) / @@unique([reporterId, commentId]):
\* the insert fails when a committed row has the same key ...
UniqueViolation(r) == CopiesIn(r, reports) > 0

\* ... and waits while another transaction's uncommitted row has it
UniqueWait(t, r) == \E o \in Txs \ {t} : InTx(o) /\ TxRow(o) = r

\* the report count a statement of transaction t sees: the committed rows
\* and its own insert
TxCount(t) == CommittedCount(tx[t].postId, tx[t].commentId) + 1

\* the threshold test passing only above the threshold
ShouldHide_Late(count) == count > REPORT_THRESHOLD

\* the threshold test off by one
ShouldHide_OffByOne(count) == count >= REPORT_THRESHOLD - 1

\* if (count >= 5)
ShouldHide(count) == count >= REPORT_THRESHOLD

\* data: { isHidden: v } on the target's row
WithHidden(p, c, v) ==
    IF p # NULL
    THEN /\ postHidden' = [postHidden EXCEPT ![p] = v]
         /\ UNCHANGED comments
    ELSE /\ comments' = [comments EXCEPT ![c].isHidden = v]
         /\ UNCHANGED postHidden

\* The request arrives and is validated.
ReceiveReport(t, u, p, c, reason) ==
    /\ tx[t].pc = "idle"
    /\ u \in RequestUsers
    /\ Target(p, c) \in RequestTargets
    /\ reason \in Reasons \/ u \in Careless
    /\ LET st == SubmitStatus(u, p, c, reason)
       IN tx' = [tx EXCEPT ![t] =
                   IF st = 0
                   THEN [pc |-> "validated", op |-> "report", userId |-> u,
                         postId |-> p, commentId |-> c, reason |-> reason,
                         count |-> 0, status |-> 0]
                   ELSE [Done("report", u, p, c, st) EXCEPT !.reason = reason]]
    /\ UNCHANGED <<postDeleted, postHidden, comments, nextCommentId, reports, reported, others, response, votes,
                   users, boot, now, token>>

\* the insert writing its row before the duplicate is refused
InsertReport_WritesDuplicate(t) ==
    /\ tx[t].pc = "validated"
    /\ LET u == tx[t].userId
           p == tx[t].postId
           c == tx[t].commentId
       IN IF p = NULL /\ ~CommentExists(c)
          THEN /\ tx' = [tx EXCEPT ![t] = Done("report", u, p, c, 500)]
               /\ UNCHANGED reports
          ELSE IF UniqueViolation(Row(u, p, c))
          THEN /\ tx' = [tx EXCEPT ![t] = Done("report", u, p, c, 409)]
               /\ reports' = reports (+) SetToBag({Row(u, p, c)})
          ELSE /\ ~UniqueWait(t, Row(u, p, c))
               /\ tx' = [tx EXCEPT ![t].pc = "inserted"]
               /\ UNCHANGED reports
    /\ UNCHANGED <<postDeleted, postHidden, comments, nextCommentId, reported, others, response, votes,
                   users, boot, now, token>>

\* tx.report.create({...})
InsertReport(t) ==
    /\ tx[t].pc = "validated"
    /\ LET u == tx[t].userId
           p == tx[t].postId
           c == tx[t].commentId
       IN IF p = NULL /\ ~CommentExists(c)
          THEN \* foreign key violation: the comment is gone
               tx' = [tx EXCEPT ![t] = Done("report", u, p, c, 500)]
          ELSE IF UniqueViolation(Row(u, p, c))
          THEN tx' = [tx EXCEPT ![t] = Done("report", u, p, c, 409)]
          ELSE /\ ~UniqueWait(t, Row(u, p, c))
               /\ tx' = [tx EXCEPT ![t].pc = "inserted"]
    /\ UNCHANGED <<postDeleted, postHidden, comments, nextCommentId, reports, reported, others, response, votes,
                   users, boot, now, token>>

\* const count = await tx.report.count({...})
CountReports(t) ==
    /\ tx[t].pc = "inserted"
    /\ tx' = [tx EXCEPT ![t].pc = "counted", ![t].count = TxCount(t)]
    /\ UNCHANGED <<postDeleted, postHidden, comments, nextCommentId, reports, reported, others, response, votes,
                   users, boot, now, token>>

\* if (count >= 5) { await tx.post.update({ data: { isHidden: true } }) }
HideContent(t) ==
    /\ tx[t].pc = "counted"
    /\ ShouldHide(tx[t].count)
    /\ ~LockHeld(tx[t].postId, tx[t].commentId)
    /\ tx' = [tx EXCEPT ![t].pc = "updated"]
    /\ UNCHANGED <<postDeleted, postHidden, comments, nextCommentId, reports, reported, others, response, votes,
                   users, boot, now, token>>

\* the transaction's callback returns: its writes become visible together
CommitReport(t) ==
    /\ \/ tx[t].pc = "updated"
       \/ tx[t].pc = "counted" /\ ~ShouldHide(tx[t].count)
    /\ reports' = reports (+) SetToBag({TxRow(t)})
    /\ IF tx[t].pc = "updated"
       THEN WithHidden(tx[t].postId, tx[t].commentId, TRUE)
       ELSE UNCHANGED <<postHidden, comments>>
    /\ tx' = [tx EXCEPT ![t] =
                Done("report", tx[t].userId, tx[t].postId, tx[t].commentId, 201)]
    /\ UNCHANGED <<postDeleted, nextCommentId, reported, others, response, votes,
                   users, boot, now, token>>

\* the transaction fails or times out after a write: everything it wrote
\* is rolled back
AbortReport(t) ==
    /\ InTx(t)
    /\ tx' = [tx EXCEPT ![t] =
                Done("report", tx[t].userId, tx[t].postId, tx[t].commentId, 500)]
    /\ UNCHANGED <<postDeleted, postHidden, comments, nextCommentId, reports, reported, others, response, votes,
                   users, boot, now, token>>

\* the response has been sent
Release(t) ==
    /\ tx[t].pc = "done"
    /\ tx' = [tx EXCEPT ![t] = IdleTx]
    /\ UNCHANGED <<postDeleted, postHidden, comments, nextCommentId, reports, reported, others, response, votes,
                   users, boot, now, token>>


\* ------------------------------------------- /api/admin/reports/:id/...

\* the users that call the admin endpoints in the runs explored: a plain
\* user and the admin
Reviewers == {2} \cup Admins

\* the handlers that serve the admin endpoints (the others serve report
\* submissions only)
AdminTxs == {1}

\* the rows a :id of a run may name: any reporter's report against the
\* reported item, present in the table or not
NamedRows == {Row(u, reported.postId, reported.commentId) : u \in Users}

\* the admin operations going ahead without looking the report up
AdminStatus_NoLookup(u, r) == IF ~isAdmin(u) THEN 403 ELSE 200

\* requireAuth, requireAdmin, then the look-up of the report and of its
\* target; 200 when the operation goes ahead
AdminStatus(u, r) ==
    IF ~isAdmin(u) THEN 403
    ELSE IF ~BagIn(r, reports) THEN 404
    ELSE IF ~(IF r.postId # NULL THEN PostExists(r.postId)
                                  ELSE CommentExists(r.commentId)) THEN 404
    ELSE 200

\* deleting the reports of every target
WithoutReportsOf_All(b, p, c) == EmptyBag

\* the reports table without the rows that reference the target
WithoutReportsOf(b, p, c) ==
    LET keep == BagToSet(b) \ RowsOf(b, p, c)
    IN [r \in keep |-> b[r]]

\* the response of an admin operation: the target is named only when the
\* report was resolved
AdminDone(op, u, r, st) ==
    IF st = 200 THEN Done(op, u, r.postId, r.commentId, st)
                ELSE Done(op, u, NULL, NULL, st)

\* unhide deleting the named report as well
UnhideEffect_DropsReport(r) ==
    /\ WithHidden(r.postId, r.commentId, FALSE)
    /\ reports' = reports (-) SetToBag({r})

\* "Unhides content without deleting reports"
UnhideEffect(r) ==
    /\ WithHidden(r.postId, r.commentId, FALSE)
    /\ UNCHANGED reports

\* dismiss deleting the named report only
DismissEffect_OnlyNamed(r) ==
    /\ reports' = reports (-) SetToBag({r})
    /\ WithHidden(r.postId, r.commentId, FALSE)

\* "Deletes all reports for a piece of content AND unhides it"
DismissEffect(r) ==
    /\ reports' = WithoutReportsOf(reports, r.postId, r.commentId)
    /\ WithHidden(r.postId, r.commentId, FALSE)

\* POST /api/admin/reports/:id/unhide
Unhide(t, u, r) ==
    /\ tx[t].pc = "idle"
    /\ LET st == AdminStatus(u, r)
       IN /\ IF st = 200
             THEN /\ ~LockHeld(r.postId, r.commentId)
                  /\ UnhideEffect(r)
             ELSE UNCHANGED <<postHidden, comments, reports>>
          /\ tx' = [tx EXCEPT ![t] = AdminDone("unhide", u, r, st)]
    /\ UNCHANGED <<postDeleted, nextCommentId, reported, others, response, votes,
                   users, boot, now, token>>

\* POST /api/admin/reports/:id/dismiss
Dismiss(t, u, r) ==
    /\ tx[t].pc = "idle"
    /\ LET st == AdminStatus(u, r)
       IN /\ IF st = 200
             THEN /\ ~LockHeld(r.postId, r.commentId)
                  /\ DismissEffect(r)
             ELSE UNCHANGED <<postHidden, comments, reports>>
          /\ tx' = [tx EXCEPT ![t] = AdminDone("dismiss", u, r, st)]
    /\ UNCHANGED <<postDeleted, nextCommentId, reported, others, response, votes,
                   users, boot, now, token>>

\* GET /api/admin/reports/:id: the report with the live count of the
\* reports against its target
ReportDetail(t, u, r) ==
    /\ tx[t].pc = "idle"
    /\ LET st == AdminStatus(u, r)
       IN tx' = [tx EXCEPT ![t] =
                   IF st = 200
                   THEN [AdminDone("detail", u, r, st) EXCEPT
                            !.count = CommittedCount(r.postId, r.commentId)]
                   ELSE AdminDone("detail", u, r, st)]
    /\ UNCHANGED <<postDeleted, postHidden, comments, nextCommentId, reports, reported, others, response, votes,
                   users, boot, now, token>>

\* ----------------------------------------------------- content handlers

isOwner(u, authorId) == u = authorId

\* Strings are sequences of characters, of which only two kinds matter: a
\* blank " " and a character "x" that is not white space.
Letters(n) == [k \in 1..n |-> "x"]
Blanks(n) == [k \in 1..n |-> " "]

RECURSIVE TrimStart(_)
TrimStart(s) == IF s # <<>> /\ Head(s) = " " THEN TrimStart(Tail(s)) ELSE s

RECURSIVE TrimEnd(_)
TrimEnd(s) ==
    IF s # <<>> /\ s[Len(s)] = " " THEN TrimEnd(SubSeq(s, 1, Len(s) - 1)) ELSE s

\* trimming that leaves the string as it is
Trim_Nothing(s) == s

\* content.trim()
Trim(s) == TrimEnd(TrimStart(s))

MIN_CONTENT_LENGTH == 20

\* the content of the comments written in the runs of report traffic
SomeContent == Letters(MIN_CONTENT_LENGTH)

\* prisma.comment.create({ data: { content: trimmedContent, authorId,
\* postId } }): the new row takes the next serial and the column default
\* isHidden = false
InsertComment(u, p, text) ==
    /\ comments' = [comments EXCEPT ![nextCommentId] =
                      [authorId |-> u, postId |-> p, isHidden |-> FALSE,
                       content |-> text]]
    /\ nextCommentId' = nextCommentId + 1

\* POST /api/comments answered 201: the post must exist and not be
\* soft-deleted
CreateComment(u, p) ==
    /\ nextCommentId \in DOMAIN comments
    /\ PostExists(p) /\ ~postDeleted[p]
    /\ InsertComment(u, p, SomeContent)
    /\ UNCHANGED <<postDeleted, postHidden, reports, tx, reported, others, response, votes,
                   users, boot, now, token>>

\* the comments written in the runs explored: the one the run's reports
\* are aimed at (a run aimed at a post writes none)
WriteComment(u, p) ==
    /\ reported.commentId = nextCommentId
    /\ CreateComment(u, p)

\* the delete leaving the comment's votes behind
RemoveComment_KeepsVotes(c) ==
    /\ comments' = [comments EXCEPT ![c] = NoComment]
    /\ reports' = WithoutReportsOf(reports, NULL, c)
    /\ votes' = votes

\* prisma.comment.delete({ where: { id } }): the row goes, and the reports
\* and votes that reference it go with it (ON DELETE CASCADE)
RemoveComment(c) ==
    /\ comments' = [comments EXCEPT ![c] = NoComment]
    /\ reports' = WithoutReportsOf(reports, NULL, c)
    /\ votes' = {v \in votes : v.commentId # c}

\* DELETE /api/comments/:id answered 200: hard delete by the author
DeleteComment(u, c) ==
    /\ CommentExists(c)
    /\ isOwner(u, comments[c].authorId)
    /\ ~Referenced(NULL, c)
    /\ RemoveComment(c)
    /\ UNCHANGED <<postDeleted, postHidden, nextCommentId, tx, reported, others, response,
                   users, boot, now, token>>

\* DELETE /api/posts/:id: soft delete by the author (deletedAt is set)
SoftDeletePost(u, p) ==
    /\ PostExists(p) /\ ~postDeleted[p]
    /\ isOwner(u, PostAuthor[p])
    /\ ~LockHeld(p, NULL)
    /\ postDeleted' = [postDeleted EXCEPT ![p] = TRUE]
    /\ UNCHANGED <<postHidden, comments, nextCommentId, reports, tx, reported, others, response, votes,
                   users, boot, now, token>>

\* ------------------------------------------------------------ listings

\* the posts the run's report traffic leaves alone, the topics, and the
\* rows of posts as a whole
OtherPosts == {2, 3}
Topics == {1, 2}
AllPosts == Posts \cup OtherPosts

DEFAULT_FEED_LIMIT == 20
MAX_FEED_LIMIT == 100
DEFAULT_COMMENT_LIMIT == 50
MAX_COMMENT_LIMIT == 100

\* the row of posts with id p, with its _count of votes
PostRow(p) ==
    IF p \in Posts
    THEN [id |-> p, authorId |-> PostAuthor[p], primaryTopicId |-> 1,
          createdAt |-> 1, deletedAt |-> IF postDeleted[p] THEN 1 ELSE NULL,
          isHidden |-> postHidden[p], voteCount |-> 0]
    ELSE [id |-> p, authorId |-> others[p].authorId,
          primaryTopicId |-> others[p].primaryTopicId,
          createdAt |-> others[p].createdAt, deletedAt |-> others[p].deletedAt,
          isHidden |-> others[p].isHidden, voteCount |-> others[p].voteCount]

PostRows == {PostRow(p) : p \in AllPosts}

\* the row of comments with id c
CommentRow(c) ==
    [id |-> c, authorId |-> comments[c].authorId, postId |-> comments[c].postId,
     createdAt |-> c, deletedAt |-> NULL, isHidden |-> comments[c].isHidden,
     voteCount |-> 0]

\* req.user of a request: userId is NULL when the request carries no token
Viewer(u) == [userId |-> u, isAdmin |-> u # NULL /\ isAdmin(u)]

\* the visibility rule leaving the author out
isVisible_NoAuthor(item, viewer) ==
    item.deletedAt = NULL /\ (~item.isHidden \/ viewer.isAdmin)

\* Visibility of a content item to a viewer: nobody sees a soft-deleted
\* item; everybody sees one that is not hidden; a hidden one is seen by
\* admins and by its author.
isVisible(item, viewer) ==
    IF item.deletedAt # NULL THEN FALSE
    ELSE IF ~item.isHidden THEN TRUE
    ELSE viewer.isAdmin \/ (viewer.userId # NULL /\ viewer.userId = item.authorId)

\* a query parameter after parseInt: an integer, or NaN when it is absent
\* or not a number
NaN == [nan |-> TRUE, n |-> 0]
Num(n) == [nan |-> FALSE, n |-> n]

\* x || d: NaN and 0 are falsy
OrDefault(x, d) == IF x.nan \/ x.n = 0 THEN d ELSE x.n

Min(a, b) == IF a <= b THEN a ELSE b
Max(a, b) == IF a >= b THEN a ELSE b

\* Math.min(parseInt(req.query.limit) || 20, 100)
FeedLimit(q) == Min(OrDefault(q, DEFAULT_FEED_LIMIT), MAX_FEED_LIMIT)

\* parseInt(req.query.offset) || 0
FeedOffset(q) == OrDefault(q, 0)

\* if (isNaN(limit) || limit < 1 || isNaN(offset) || offset < 0) -> 400
InvalidPagination(limit, offset) == limit < 1 \/ offset < 0

\* the feeds showing hidden posts to every viewer
HiddenFilter_ShowAll(row, showHidden) == TRUE

\* ...(showHidden ? {} : { isHidden: false })
HiddenFilter(row, showHidden) == showHidden \/ ~row.isHidden

\* the home feed without its deletedAt filter
HomeWhere_WithDeleted(row, viewer) == HiddenFilter(row, viewer.isAdmin)

\* where: { deletedAt: null, ...(isAdmin ? {} : { isHidden: false }) }
HomeWhere(row, viewer) ==
    row.deletedAt = NULL /\ HiddenFilter(row, viewer.isAdmin)

\* where: { primaryTopicId: topicId, deletedAt: null, ... }
TopicWhere(row, viewer, topicId) ==
    /\ row.primaryTopicId = topicId
    /\ row.deletedAt = NULL
    /\ HiddenFilter(row, viewer.isAdmin)

\* the author feed with showHidden = isAdmin
AuthorWhere_NoOwner(row, viewer, authorId) ==
    /\ row.authorId = authorId
    /\ row.deletedAt = NULL
    /\ HiddenFilter(row, viewer.isAdmin)

\* showHidden = isOwnProfile || isAdmin;
\* where: { authorId, deletedAt: null, ...(showHidden ? {} : { isHidden: false }) }
AuthorWhere(row, viewer, authorId) ==
    /\ row.authorId = authorId
    /\ row.deletedAt = NULL
    /\ HiddenFilter(row, viewer.userId = authorId \/ viewer.isAdmin)

\* orderBy: [{ createdAt: 'desc' }, { id: 'desc' }]
Before(a, b) ==
    a.createdAt > b.createdAt \/ (a.createdAt = b.createdAt /\ a.id > b.id)

RECURSIVE Ordered(_)
Ordered(rows) ==
    IF rows = {} THEN <<>>
    ELSE LET first == CHOOSE a \in rows : \A b \in rows \ {a} : Before(a, b)
         IN <<first>> \o Ordered(rows \ {first})

\* skip: offset, take: limit
Page(seq, skip, take) ==
    SubSeq(seq, skip + 1, Min(skip + take, Len(seq)))

\* the comparator of enrichedPosts.sort: negative when a goes first
Compare(a, b) ==
    IF b.createdAt # a.createdAt THEN b.createdAt - a.createdAt
    ELSE b.voteCount - a.voteCount

\* x put into a sorted sequence behind every element that does not go
\* after it (Array.prototype.sort is stable)
RECURSIVE Insert(_, _)
Insert(x, seq) ==
    IF seq = <<>> THEN <<x>>
    ELSE IF Compare(Head(seq), x) <= 0
         THEN <<Head(seq)>> \o Insert(x, Tail(seq))
         ELSE <<x>> \o seq

\* enrichedPosts.sort(...)
RECURSIVE SortPage(_)
SortPage(seq) ==
    IF seq = <<>> THEN <<>>
    ELSE Insert(seq[Len(seq)], SortPage(SubSeq(seq, 1, Len(seq) - 1)))

\* the fields of a post a feed returns
Enriched(post) ==
    [id |-> post.id, createdAt |-> post.createdAt, authorId |-> post.authorId,
     primaryTopicId |-> post.primaryTopicId, voteCount |-> post.voteCount,
     isHidden |-> post.isHidden]

RECURSIVE Map(_)
Map(posts) ==
    IF posts = <<>> THEN <<>> ELSE <<Enriched(Head(posts))>> \o Map(Tail(posts))

\* req.body.content: a string, or a value that is no string at all
NoContent == [str |-> FALSE, chars |-> <<>>]
Str(chars) == [str |-> TRUE, chars |-> chars]

NoResponse ==
    [op |-> "none", viewer |-> Viewer(NULL), scope |-> NULL, limit |-> 0,
     offset |-> 0, status |-> 0, items |-> <<>>, hasMore |-> FALSE, total |-> 0,
     query |-> <<NaN, NaN>>, body |-> NoContent]

\* the response together with req.query.limit and req.query.offset of the
\* request it answers
Asked(resp, ql, qo) == [resp EXCEPT !.query = <<ql, qo>>]

\* an error response: no items
Failed(op, viewer, scope, st) ==
    [NoResponse EXCEPT !.op = op, !.viewer = viewer, !.scope = scope, !.status = st]

\* res.json({ posts: enrichedPosts, pagination: { limit, offset,
\* hasMore: posts.length === limit } })
FeedPage(op, viewer, scope, rows, limit, offset) ==
    LET posts == Page(Ordered(rows), offset, limit)
    IN [op |-> op, viewer |-> viewer, scope |-> scope, limit |-> limit,
        offset |-> offset, status |-> 200, items |-> SortPage(Map(posts)),
        hasMore |-> (Len(posts) = limit), total |-> 0, query |-> <<NaN, NaN>>,
        body |-> NoContent]

\* GET /api/feed/home
HomeFeed(viewer, ql, qo) ==
    LET limit == FeedLimit(ql)
        offset == FeedOffset(qo)
    IN IF InvalidPagination(limit, offset) THEN Failed("home", viewer, NULL, 400)
       ELSE FeedPage("home", viewer, NULL,
                     {r \in PostRows : HomeWhere(r, viewer)}, limit, offset)

\* GET /api/feed/topic/:topicId
TopicFeed(viewer, topicId, ql, qo) ==
    LET limit == FeedLimit(ql)
        offset == FeedOffset(qo)
    IN IF InvalidPagination(limit, offset) THEN Failed("topic", viewer, topicId, 400)
       ELSE IF topicId \notin Topics THEN Failed("topic", viewer, topicId, 404)
       ELSE FeedPage("topic", viewer, topicId,
                     {r \in PostRows : TopicWhere(r, viewer, topicId)}, limit, offset)

\* GET /api/feed/author/:authorId
AuthorFeed(viewer, authorId, ql, qo) ==
    LET limit == FeedLimit(ql)
        offset == FeedOffset(qo)
    IN IF InvalidPagination(limit, offset) THEN Failed("author", viewer, authorId, 400)
       ELSE IF authorId \notin Users THEN Failed("author", viewer, authorId, 404)
       ELSE FeedPage("author", viewer, authorId,
                     {r \in PostRows : AuthorWhere(r, viewer, authorId)}, limit, offset)

\* where: { postId: parsedPostId }
CommentWhere(row, postId) == row.postId = postId

\* orderBy: { createdAt: 'asc' }
RECURSIVE OldestFirst(_)
OldestFirst(rows) ==
    IF rows = {} THEN <<>>
    ELSE LET first == CHOOSE a \in rows : \A b \in rows \ {a} : a.createdAt < b.createdAt
         IN <<first>> \o OldestFirst(rows \ {first})

Reverse(seq) == [k \in 1..Len(seq) |-> seq[Len(seq) + 1 - k]]

\* findMany({ orderBy, take, skip }): a negative take selects from the end
\* of the ordered rows (skip rows from the end, then -take rows before
\* them), and the rows come in the order asked for
FindPage(seq, skip, take) ==
    IF take >= 0 THEN Page(seq, skip, take)
    ELSE Reverse(Page(Reverse(seq), skip, 0 - take))

\* GET /api/posts/:postId/comments
CommentList(viewer, postId, ql, qo) ==
    LET limit == Min(OrDefault(ql, DEFAULT_COMMENT_LIMIT), MAX_COMMENT_LIMIT)
        offset == Max(OrDefault(qo, 0), 0)
        rows == {CommentRow(c) : c \in {d \in DOMAIN comments : CommentExists(d)}}
        found == {r \in rows : CommentWhere(r, postId)}
    IN IF ~(PostExists(postId) /\ ~postDeleted[postId])
       THEN Failed("comments", viewer, postId, 404)
       ELSE [op |-> "comments", viewer |-> viewer, scope |-> postId,
             limit |-> limit, offset |-> offset, status |-> 200,
             items |-> FindPage(OldestFirst(found), offset, limit),
             hasMore |-> (offset + limit < Cardinality(found)),
             total |-> Cardinality(found), query |-> <<NaN, NaN>>,
             body |-> NoContent]

\* The listing handlers: one request is followed at a time, from its
\* arrival to its response.
getHomeFeed(u, ql, qo) ==
    /\ response = NoResponse
    /\ response' = Asked(HomeFeed(Viewer(u), ql, qo), ql, qo)
    /\ UNCHANGED <<postDeleted, postHidden, comments, nextCommentId, reports, tx, reported, others, votes,
                   users, boot, now, token>>

getTopicFeed(u, topicId, ql, qo) ==
    /\ response = NoResponse
    /\ response' = Asked(TopicFeed(Viewer(u), topicId, ql, qo), ql, qo)
    /\ UNCHANGED <<postDeleted, postHidden, comments, nextCommentId, reports, tx, reported, others, votes,
                   users, boot, now, token>>

getAuthorFeed(u, authorId, ql, qo) ==
    /\ response = NoResponse
    /\ response' = Asked(AuthorFeed(Viewer(u), authorId, ql, qo), ql, qo)
    /\ UNCHANGED <<postDeleted, postHidden, comments, nextCommentId, reports, tx, reported, others, votes,
                   users, boot, now, token>>

listCommentsForPost(u, postId, ql, qo) ==
    /\ response = NoResponse
    /\ response' = Asked(CommentList(Viewer(u), postId, ql, qo), ql, qo)
    /\ UNCHANGED <<postDeleted, postHidden, comments, nextCommentId, reports, tx, reported, others, votes,
                   users, boot, now, token>>

\* !content || typeof content !== 'string'
ContentMissing(content) == ~content.str \/ content.chars = <<>>

\* trimmedContent.length < MIN_CONTENT_LENGTH
TooShort(content) == Len(Trim(content.chars)) < MIN_CONTENT_LENGTH

\* the checks of createComment, in their order
CreateStatus(postId, content) ==
    IF ContentMissing(content) THEN 400
    ELSE IF TooShort(content) THEN 400
    ELSE IF postId.nan THEN 400
    ELSE IF ~(PostExists(postId.n) /\ ~postDeleted[postId.n]) THEN 404
    ELSE 201

\* the checks of updateComment, in their order
UpdateStatus(u, id, content) ==
    IF id.nan THEN 400
    ELSE IF ContentMissing(content) THEN 400
    ELSE IF TooShort(content) THEN 400
    ELSE IF ~CommentExists(id.n) THEN 404
    ELSE IF ~isOwner(u, comments[id.n].authorId) THEN 403
    ELSE 200

\* deleteComment letting every user through
DeleteStatus_NoOwnerCheck(u, id) ==
    IF id.nan THEN 400
    ELSE IF ~CommentExists(id.n) THEN 404
    ELSE 200

\* the checks of deleteComment, in their order
DeleteStatus(u, id) ==
    IF id.nan THEN 400
    ELSE IF ~CommentExists(id.n) THEN 404
    ELSE IF ~isOwner(u, comments[id.n].authorId) THEN 403
    ELSE 200

\* the response of a comment handler to user u, with the id and the content
\* the request carried
Reply(op, u, id, content, st) ==
    [NoResponse EXCEPT !.op = op, !.viewer = Viewer(u), !.status = st,
                       !.scope = IF id.nan THEN NULL ELSE id.n,
                       !.query = <<id, NaN>>, !.body = content]

\* POST /api/comments
createComment(u, postId, content) ==
    /\ response = NoResponse
    /\ LET st == CreateStatus(postId, content)
       IN /\ IF st = 201
             THEN /\ nextCommentId \in DOMAIN comments
                  /\ InsertComment(u, postId.n, Trim(content.chars))
             ELSE UNCHANGED <<comments, nextCommentId>>
          /\ response' = Reply("createComment", u, postId, content, st)
    /\ UNCHANGED <<postDeleted, postHidden, reports, tx, reported, others, votes,
                   users, boot, now, token>>

\* PUT /api/comments/:id
updateComment(u, id, content) ==
    /\ response = NoResponse
    /\ LET st == UpdateStatus(u, id, content)
       IN /\ IF st = 200
             THEN comments' = [comments EXCEPT ![id.n].content = Trim(content.chars)]
             ELSE UNCHANGED comments
          /\ response' = Reply("updateComment", u, id, content, st)
    /\ UNCHANGED <<postDeleted, postHidden, nextCommentId, reports, tx, reported, others, votes,
                   users, boot, now, token>>

\* DELETE /api/comments/:id
deleteComment(u, id) ==
    /\ response = NoResponse
    /\ LET st == DeleteStatus(u, id)
       IN /\ IF st = 200
             THEN ~Referenced(NULL, id.n) /\ RemoveComment(id.n)
             ELSE UNCHANGED <<comments, reports, votes>>
          /\ response' = Reply("deleteComment", u, id, NoContent, st)
    /\ UNCHANGED <<postDeleted, postHidden, nextCommentId, tx, reported, others,
                   users, boot, now, token>>

\* the response has been sent
Deliver ==
    /\ response # NoResponse
    /\ response' = NoResponse
    /\ UNCHANGED <<postDeleted, postHidden, comments, nextCommentId, reports, tx, reported, others, votes,
                   users, boot, now, token>>

\* ------------------------------------------- bootstrap of system users

\* process.env.SYSTEM_USER_EMAIL and process.env.BOT_USER_EMAIL, both set
SYSTEM_USER_EMAIL == "system@learnloop"
BOT_USER_EMAIL == "bot@learnloop"

\* the runs of bootstrapSystemUsers that may be under way at once
Runs == {1, 2}

IdleRun == [pc |-> "idle", found |-> {}, created |-> {}, error |-> "none", outcome |-> "none"]

\* the email a run at this position looks for or creates, with the
\* username and the role of the user
EmailAt(pc) == IF pc \in {"findSystem", "createSystem"} THEN SYSTEM_USER_EMAIL
                                                        ELSE BOT_USER_EMAIL
UsernameAt(pc) == IF pc = "createSystem" THEN "LearnLoop" ELSE "LearnLoop Bot"
RoleAt(pc) == IF pc = "createSystem" THEN "SYSTEM" ELSE "BOT"

\* the position after the system user / the bot user is dealt with
After(pc) == IF pc \in {"findSystem", "createSystem"} THEN "findBot" ELSE "completed"

\* prisma.user.findUnique({ where: { email } })
FindUnique(email) == {u \in users : u.email = email}

\* the users table without its unique indexes
KeyViolation_None(email, username) == FALSE

\* users_email_key / users_username_key: the create throws P2002
KeyViolation(email, username) ==
    \E u \in users : u.email = email \/ u.username = username

\* catch (error) { console.error(..., error) }: the error is logged and not
\* thrown on, the promise of the run resolves
Caught(run, error) ==
    [run EXCEPT !.pc = "returned", !.error = error, !.outcome = "resolved"]

\* the server starts, or is started once more: a run begins
StartBootstrap(r) ==
    /\ boot[r].pc \in {"idle", "returned"}
    /\ boot' = [boot EXCEPT ![r] = [IdleRun EXCEPT !.pc = "findSystem"]]
    /\ UNCHANGED <<postDeleted, postHidden, comments, nextCommentId, reports, tx, reported,
                   others, response, votes, users, now, token>>

\* const existing = await prisma.user.findUnique(...); if (existing) ...
FindUser(r) ==
    /\ boot[r].pc \in {"findSystem", "findBot"}
    /\ LET pc == boot[r].pc
       IN boot' = [boot EXCEPT ![r] =
                     IF FindUnique(EmailAt(pc)) # {}
                     THEN [@ EXCEPT !.pc = After(pc), !.found = @ \cup {EmailAt(pc)}]
                     ELSE [@ EXCEPT !.pc = IF pc = "findSystem" THEN "createSystem"
                                                                ELSE "createBot"]]
    /\ UNCHANGED <<postDeleted, postHidden, comments, nextCommentId, reports, tx, reported,
                   others, response, votes, users, now, token>>

\* await prisma.user.create({ data: { email, username, role, ... } })
CreateUser(r) ==
    /\ boot[r].pc \in {"createSystem", "createBot"}
    /\ LET pc == boot[r].pc
       IN IF KeyViolation(EmailAt(pc), UsernameAt(pc))
          THEN /\ boot' = [boot EXCEPT ![r] = Caught(@, "P2002")]
               /\ UNCHANGED users
          ELSE /\ users' = users \cup {[id |-> Cardinality(users) + 1, email |-> EmailAt(pc),
                                         username |-> UsernameAt(pc), role |-> RoleAt(pc)]}
               /\ boot' = [boot EXCEPT ![r] =
                             [@ EXCEPT !.pc = After(pc), !.created = @ \cup {EmailAt(pc)}]]
    /\ UNCHANGED <<postDeleted, postHidden, comments, nextCommentId, reports, tx, reported,
                   others, response, votes, now, token>>

\* a database call of the run fails (the database is down, the connection
\* drops): it throws inside the try block
DatabaseError(r) ==
    /\ boot[r].pc \in {"findSystem", "createSystem", "findBot", "createBot"}
    /\ boot' = [boot EXCEPT ![r] = Caught(@, "database")]
    /\ UNCHANGED <<postDeleted, postHidden, comments, nextCommentId, reports, tx, reported,
                   others, response, votes, users, now, token>>

\* console.log('System users bootstrap completed successfully.')
CompleteBootstrap(r) ==
    /\ boot[r].pc = "completed"
    /\ boot' = [boot EXCEPT ![r].pc = "returned", ![r].outcome = "resolved"]
    /\ UNCHANGED <<postDeleted, postHidden, comments, nextCommentId, reports, tx, reported,
                   others, response, votes, users, now, token>>

\* ------------------------------------------------ verification tokens

\* Time is counted in ticks, TicksPerMinute of them to the minute, up to
\* MaxNow.
TicksPerMinute == 2
MaxNow == 50

DEFAULT_TOKEN_MINUTES == 15

\* the argument of a call: left out, or a number
NoArg == [given |-> FALSE, n |-> 0]
Arg(n) == [given |-> TRUE, n |-> n]

\* the earlier copy of the module: getTokenExpiration(hours = 24)
getTokenExpiration_Hours(arg) ==
    LET hours == IF arg.given THEN arg.n ELSE 24
    IN now + hours * 60 * TicksPerMinute

\* getTokenExpiration(minutes = 15): expiresAt.setMinutes(expiresAt.getMinutes() + minutes)
getTokenExpiration(arg) ==
    LET minutes == IF arg.given THEN arg.n ELSE DEFAULT_TOKEN_MINUTES
    IN now + minutes * TicksPerMinute

\* new Date() > new Date(expiresAt)
isTokenExpired(expiresAt) == now > expiresAt

NoToken == [arg |-> NoArg, createdAt |-> 0, expiresAt |-> 0, checkedAt |-> 0 - 1,
            expired |-> FALSE]

\* a token is created with the lifetime asked for; it replaces the one
\* before it
CreateToken(arg) ==
    /\ token' = [NoToken EXCEPT !.arg = arg, !.createdAt = now,
                                !.expiresAt = getTokenExpiration(arg)]
    /\ UNCHANGED <<postDeleted, postHidden, comments, nextCommentId, reports, tx, reported,
                   others, response, votes, users, boot, now>>

\* the token is presented: isTokenExpired(token.expiresAt)
CheckToken ==
    /\ token # NoToken
    /\ token' = [token EXCEPT !.checkedAt = now, !.expired = isTokenExpired(token.expiresAt)]
    /\ UNCHANGED <<postDeleted, postHidden, comments, nextCommentId, reports, tx, reported,
                   others, response, votes, users, boot, now>>

\* time passes
Tick ==
    /\ now < MaxNow
    /\ now' = now + 1
    /\ UNCHANGED <<postDeleted, postHidden, comments, nextCommentId, reports, tx, reported,
                   others, response, votes, users, boot, token>>

\* no bootstrap run is under way, the system users are not created, and no
\* token is issued
StartupIdle ==
    /\ users = {}
    /\ boot = [r \in Runs |-> IdleRun]
    /\ now = 0
    /\ token = NoToken

\* ------------------------------------------------------ specifications

\* the other posts of a run of report traffic: two posts by user 2
DefaultOthers ==
    [p \in OtherPosts |->
        [authorId |-> 2, primaryTopicId |-> p - 1, createdAt |-> p - 1,
         deletedAt |-> NULL, isHidden |-> FALSE, voteCount |-> 0]]

Init ==
    /\ postDeleted = [p \in Posts |-> FALSE]
    /\ postHidden = [p \in Posts |-> FALSE]
    /\ comments = [c \in CommentIds |-> NoComment]
    /\ nextCommentId = 1
    /\ reports = EmptyBag
    /\ tx = [t \in Txs |-> IdleTx]
    /\ reported \in {Target(p, NULL) : p \in Posts}
                      \cup {Target(NULL, c) : c \in CommentIds}
    /\ others = DefaultOthers
    /\ response = NoResponse
    /\ votes = {}
    /\ StartupIdle

Next ==
    \/ \E t \in Txs, u \in Users, p \in Posts \cup {NULL}, c \in CommentIds \cup {NULL},
          reason \in RequestReasons :
             ReceiveReport(t, u, p, c, reason)
    \/ \E t \in Txs : InsertReport(t)
    \/ \E t \in Txs : CountReports(t)
    \/ \E t \in Txs : HideContent(t)
    \/ \E t \in Txs : CommitReport(t)
    \/ \E t \in Txs : AbortReport(t)
    \/ \E t \in Txs : Release(t)
    \/ \E t \in AdminTxs, u \in Reviewers, r \in NamedRows : Unhide(t, u, r)
    \/ \E t \in AdminTxs, u \in Reviewers, r \in NamedRows : Dismiss(t, u, r)
    \/ \E t \in AdminTxs, u \in Reviewers, r \in NamedRows : ReportDetail(t, u, r)
    \/ \E u \in Commenters, p \in Posts : WriteComment(u, p)
    \/ \E u \in Commenters, c \in CommentIds : DeleteComment(u, c)
    \/ \E u \in Users, p \in Posts : SoftDeletePost(u, p)

Spec == Init /\ [][Next]_vars

\* Report submissions alone, with no admin review and no deletion: the
\* concurrent submit-report transactions against one target.
NextSubmit ==
    \/ \E t \in Txs, u \in Users, p \in Posts \cup {NULL}, c \in CommentIds \cup {NULL},
          reason \in RequestReasons :
             ReceiveReport(t, u, p, c, reason)
    \/ \E t \in Txs : InsertReport(t)
    \/ \E t \in Txs : CountReports(t)
    \/ \E t \in Txs : HideContent(t)
    \/ \E t \in Txs : CommitReport(t)
    \/ \E t \in Txs : AbortReport(t)
    \/ \E t \in Txs : Release(t)
    \/ \E u \in Commenters, p \in Posts : WriteComment(u, p)

SpecSubmit == Init /\ [][NextSubmit]_vars

\* One request at a time, each served to its end before the next arrives:
\* report submissions, the admin's review and the feeds with their default
\* page.
SeqTxs == {1}

NoRequest == response = NoResponse /\ \A t \in Txs : tx[t].pc \in {"idle", "done"}

NextSeq ==
    \/ \E t \in SeqTxs, u \in Users, p \in Posts \cup {NULL}, c \in CommentIds \cup {NULL},
          reason \in RequestReasons :
             response = NoResponse /\ ReceiveReport(t, u, p, c, reason)
    \/ \E t \in SeqTxs : InsertReport(t)
    \/ \E t \in SeqTxs : CountReports(t)
    \/ \E t \in SeqTxs : HideContent(t)
    \/ \E t \in SeqTxs : CommitReport(t)
    \/ \E t \in SeqTxs : Release(t)
    \/ \E t \in SeqTxs, u \in Reviewers, r \in NamedRows :
          response = NoResponse /\ Unhide(t, u, r)
    \/ \E t \in SeqTxs, u \in Reviewers, r \in NamedRows :
          response = NoResponse /\ ReportDetail(t, u, r)
    \/ \E u \in Users \cup {NULL} : NoRequest /\ getHomeFeed(u, NaN, NaN)
    \/ \E u \in Users \cup {NULL}, authorId \in {1, 2} :
          NoRequest /\ getAuthorFeed(u, authorId, NaN, NaN)
    \/ Deliver

SpecSeq == Init /\ [][NextSeq]_vars

\* the report traffic turns to the other item, the comment instead of the
\* post or back
Retarget ==
    /\ NoRequest
    /\ reported' \in ({Target(p, NULL) : p \in Posts}
                        \cup {Target(NULL, c) : c \in CommentIds}) \ {reported}
    /\ UNCHANGED <<postDeleted, postHidden, comments, nextCommentId, reports, tx, others,
                   response, votes, users, boot, now, token>>

\* Moderation of two items, the post and its comment, one request at a
\* time: reports, unhide and dismiss against either, and the deletion of
\* both.
NextModeration ==
    \/ \E t \in SeqTxs, u \in Users, p \in Posts \cup {NULL}, c \in CommentIds \cup {NULL},
          reason \in RequestReasons :
             ReceiveReport(t, u, p, c, reason)
    \/ \E t \in SeqTxs : InsertReport(t)
    \/ \E t \in SeqTxs : CountReports(t)
    \/ \E t \in SeqTxs : HideContent(t)
    \/ \E t \in SeqTxs : CommitReport(t)
    \/ \E t \in SeqTxs : Release(t)
    \/ \E t \in SeqTxs, u \in Reviewers, r \in NamedRows : Unhide(t, u, r)
    \/ \E t \in SeqTxs, u \in Reviewers, r \in NamedRows : Dismiss(t, u, r)
    \/ \E u \in Commenters, p \in Posts : NoRequest /\ WriteComment(u, p)
    \/ \E u \in Commenters, c \in CommentIds : NoRequest /\ DeleteComment(u, c)
    \/ \E u \in Users, p \in Posts : NoRequest /\ SoftDeletePost(u, p)
    \/ Retarget

SpecModeration == Init /\ [][NextModeration]_vars

\* The listing endpoints over a database at rest.  The states of the other
\* posts: post 2 is as old as post 1 and may have a vote, post 3 is as old or
\* newer.
OtherStates ==
    {o \in [OtherPosts ->
              [authorId : {1, 2}, primaryTopicId : Topics, createdAt : {1, 2},
               deletedAt : {NULL, 1}, isHidden : BOOLEAN, voteCount : {0, 1}]] :
        /\ o[2].createdAt = 1
        /\ o[3].authorId = 2 /\ o[3].primaryTopicId = 2 /\ o[3].deletedAt = NULL
        /\ o[3].voteCount = 0}

\* the comment of a database at rest: none, or one by user 2 on post 1
CommentStates ==
    [CommentIds -> {NoComment} \cup
                   {[authorId |-> 2, postId |-> 1, isHidden |-> h,
                     content |-> SomeContent] : h \in BOOLEAN}]

\* the first five users other than the author, in the order of their ids
Reporters(a) ==
    {u \in Users : u # a /\ Cardinality({v \in Users : v # a /\ v < u}) < REPORT_THRESHOLD}

\* the reports on file in a database at rest: five against every hidden item
SeedReports(hiddenPosts, hiddenComments) ==
    SetToBag(UNION {{Row(u, p, NULL) : u \in Reporters(PostRow(p).authorId)} : p \in hiddenPosts}
             \cup UNION {{Row(u, NULL, c) : u \in Reporters(comments[c].authorId)} : c \in hiddenComments})

InitFeed ==
    /\ postDeleted \in [Posts -> BOOLEAN]
    /\ postHidden \in [Posts -> BOOLEAN]
    /\ others \in OtherStates
    /\ comments \in CommentStates
    /\ nextCommentId = 1 + Cardinality({c \in CommentIds : comments[c] # NoComment})
    /\ reports = SeedReports({p \in AllPosts : PostRow(p).isHidden},
                             {c \in CommentIds : comments[c].isHidden})
    /\ tx = [t \in Txs |-> IdleTx]
    /\ reported = Target(1, NULL)
    /\ response = NoResponse
    /\ votes = {}
    /\ StartupIdle

\* the viewers of the listings explored: no token, the author of post 1, the
\* author of the other posts, the admin, and a user who wrote nothing
Viewers == {NULL, 1, 2, 4} \cup Admins

\* the limit and offset parameters of the requests explored
Queries ==
    {<<NaN, NaN>>, <<Num(1), Num(0)>>, <<Num(1), Num(1)>>, <<Num(2), Num(1)>>,
     <<Num(0), Num(2)>>, <<Num(-1), NaN>>, <<NaN, Num(-1)>>}

\* a topic, an author and a post that do not exist
NoSuchId == NumUsers + 2

NextFeed ==
    \/ \E u \in Viewers, q \in Queries : getHomeFeed(u, q[1], q[2])
    \/ \E u \in Viewers, topicId \in Topics \cup {NoSuchId}, q \in Queries :
          getTopicFeed(u, topicId, q[1], q[2])
    \/ \E u \in Viewers, authorId \in {1, 2, NoSuchId}, q \in Queries :
          getAuthorFeed(u, authorId, q[1], q[2])
    \/ \E u \in Viewers, postId \in Posts \cup {NoSuchId}, q \in Queries :
          listCommentsForPost(u, postId, q[1], q[2])
    \/ Deliver

SpecFeed == InitFeed /\ [][NextFeed]_vars

\* The comment handlers, one request at a time, on a post that its author
\* may delete.  The comments table has room for MaxComments rows.
MaxComments == 2

\* the users sending comment requests: the author of the post, another
\* user and an admin
Writers == {1, 2} \cup Admins

\* the comment on file at the start, by user 2, and the votes and the
\* report that may name it
FirstComment ==
    [authorId |-> 2, postId |-> 1, isHidden |-> FALSE, content |-> SomeContent]

FirstVotes == {[userId |-> u, commentId |-> 1] : u \in {1, 3}}

InitComments ==
    /\ postDeleted = [p \in Posts |-> FALSE]
    /\ postHidden = [p \in Posts |-> FALSE]
    /\ comments \in {[c \in 1..MaxComments |-> NoComment],
                      [c \in 1..MaxComments |-> IF c = 1 THEN FirstComment ELSE NoComment]}
    /\ nextCommentId = 1 + Cardinality({c \in DOMAIN comments : comments[c] # NoComment})
    /\ votes \in IF comments[1] = NoComment THEN {{}} ELSE {{}, FirstVotes}
    /\ reports \in IF comments[1] = NoComment THEN {EmptyBag}
                   ELSE {EmptyBag, SetToBag({Row(1, NULL, 1)})}
    /\ tx = [t \in Txs |-> IdleTx]
    /\ reported = Target(1, NULL)
    /\ others = DefaultOthers
    /\ response = NoResponse
    /\ StartupIdle

\* the contents sent: none, the empty string, blanks only, 19 and 20
\* characters, the same between blanks, and 21 characters with a blank in
\* the middle
Contents ==
    {NoContent, Str(<<>>), Str(Blanks(3)),
     Str(Letters(MIN_CONTENT_LENGTH - 1)), Str(Letters(MIN_CONTENT_LENGTH)),
     Str(Blanks(1) \o Letters(MIN_CONTENT_LENGTH - 1) \o Blanks(1)),
     Str(Blanks(1) \o Letters(MIN_CONTENT_LENGTH) \o Blanks(2)),
     Str(Letters(MIN_CONTENT_LENGTH - 10) \o Blanks(1) \o Letters(10))}

\* the ids sent: not a number, every id of the table, and one beyond it
SentIds(ids) == {NaN} \cup {Num(n) : n \in ids \cup {NoSuchId}}

NextComments ==
    \/ \E u \in Writers, postId \in SentIds(Posts), content \in Contents :
          createComment(u, postId, content)
    \/ \E u \in Writers, id \in SentIds(DOMAIN comments), content \in Contents :
          updateComment(u, id, content)
    \/ \E u \in Writers, id \in SentIds(DOMAIN comments) : deleteComment(u, id)
    \/ \E u \in Writers, p \in Posts : response = NoResponse /\ SoftDeletePost(u, p)
    \/ Deliver

SpecComments == InitComments /\ [][NextComments]_vars

\* the database at rest apart from the users table
ContentAtRest ==
    /\ postDeleted = [p \in Posts |-> FALSE]
    /\ postHidden = [p \in Posts |-> FALSE]
    /\ comments = [c \in CommentIds |-> NoComment]
    /\ nextCommentId = 1
    /\ reports = EmptyBag
    /\ tx = [t \in Txs |-> IdleTx]
    /\ reported = Target(1, NULL)
    /\ others = DefaultOthers
    /\ response = NoResponse
    /\ votes = {}

\* The server starting, twice at once at most, any number of times.  The
\* users table at the start: empty, with the system user, with both system
\* users, or with another user who has taken the bot's username.
UserStates ==
    {{},
     {[id |-> 1, email |-> SYSTEM_USER_EMAIL, username |-> "LearnLoop", role |-> "SYSTEM"]},
     {[id |-> 1, email |-> SYSTEM_USER_EMAIL, username |-> "LearnLoop", role |-> "SYSTEM"],
      [id |-> 2, email |-> BOT_USER_EMAIL, username |-> "LearnLoop Bot", role |-> "BOT"]},
     {[id |-> 1, email |-> "user@learnloop", username |-> "LearnLoop Bot", role |-> "USER"]}}

InitBootstrap ==
    /\ ContentAtRest
    /\ users \in UserStates
    /\ boot = [r \in Runs |-> IdleRun]
    /\ now = 0
    /\ token = NoToken

NextBootstrap ==
    \/ \E r \in Runs : StartBootstrap(r)
    \/ \E r \in Runs : FindUser(r)
    \/ \E r \in Runs : CreateUser(r)
    \/ \E r \in Runs : DatabaseError(r)
    \/ \E r \in Runs : CompleteBootstrap(r)

SpecBootstrap == InitBootstrap /\ [][NextBootstrap]_vars

\* Verification tokens over time.  The lifetimes asked for: the default, no
\* time at all, one minute and twenty.
Lifetimes == {NoArg, Arg(0), Arg(1), Arg(20)}

InitToken ==
    /\ ContentAtRest
    /\ StartupIdle

NextToken ==
    \/ \E arg \in Lifetimes : CreateToken(arg)
    \/ CheckToken
    \/ Tick

SpecToken == InitToken /\ [][NextToken]_vars


\* ------------------------------------------------------------- properties

\* the content items: every post and every comment id
Items == {Target(p, NULL) : p \in Posts} \cup {Target(NULL, c) : c \in CommentIds}

\* the item's row exists
ItemExists(i) ==
    IF i.postId # NULL THEN PostExists(i.postId) ELSE CommentExists(i.commentId)

Count(i) == CommittedCount(i.postId, i.commentId)

Hidden(i) == IsHidden(i.postId, i.commentId)

\* handler t works on item i
On(t, i) == tx[t].postId = i.postId /\ tx[t].commentId = i.commentId

\* the request handler t has answered names item i
Names(t, i) == tx'[t].postId = i.postId /\ tx'[t].commentId = i.commentId

\* this step commits / rolls back the submit-report transaction of t
Committing(t) == InTx(t) /\ tx'[t].pc = "done" /\ tx'[t].status = 201
Aborting(t) == InTx(t) /\ tx'[t].pc = "done" /\ tx'[t].status = 500

\* this step is handler t answering a request for op that it received
Answering(t, op) == tx[t].pc = "idle" /\ tx'[t].pc = "done" /\ tx'[t].op = op

\* no submit-report request against item i is under way
Quiet(i) == \A t \in Txs : tx[t].pc \in {"idle", "done"} \/ ~On(t, i)

\* C1: under any interleaving of concurrent submit-report transactions at
\* read committed, once all of them have committed with reportCount(target)
\* >= 5 the target is hidden.
C1_HiddenOnceAllCommitted ==
    \A i \in Items : Quiet(i) /\ Count(i) >= REPORT_THRESHOLD => Hidden(i)

\* C2: in every state reached when a submit-report operation commits,
\* reportCount(item) >= 5 implies item.hidden = true.
C2_CommitAtThresholdHides ==
    [][\A t \in Txs, i \in Items :
          Committing(t) /\ On(t, i) /\ (Count(i))' >= REPORT_THRESHOLD
             => (Hidden(i))']_vars

\* C3: every false -> true transition of an item's hidden flag is made by a
\* submit-report transaction whose recomputed report count for that item is
\* >= 5; no other operation sets hidden = true.
C3_HideOnlyByReportAtThreshold ==
    [][\A i \in Items :
          ~Hidden(i) /\ (Hidden(i))'
             => \E t \in Txs : /\ Committing(t) /\ On(t, i)
                               /\ tx[t].op = "report"
                               /\ tx[t].count >= REPORT_THRESHOLD]_vars

\* C3 witness: a submission has just committed and its target, with five
\* reports or more on file, is hidden.
C3_Witness ==
    \E t \in Txs, i \in Items :
        /\ tx[t].pc = "done" /\ tx[t].op = "report" /\ tx[t].status = 201
        /\ On(t, i) /\ Hidden(i) /\ Count(i) >= REPORT_THRESHOLD

\* C4: with N >= 5 distinct reporters submitting against one target that
\* starts unhidden with no reports, exactly one false -> true transition
\* occurs (it is made by the commit that takes the count to the threshold),
\* and no transaction performs the hide update once the flag is true.
C4_ExactlyOneHide ==
    [][\A i \in Items :
          /\ (Count(i) < REPORT_THRESHOLD /\ (Count(i))' >= REPORT_THRESHOLD)
                => (~Hidden(i) /\ (Hidden(i))')
          /\ \A t \in Txs :
                (On(t, i) /\ tx[t].pc = "counted" /\ tx'[t].pc = "updated")
                   => ~Hidden(i)]_vars

\* C5: at most one report row exists per (reporter, target), also after
\* two concurrent submissions by one reporter; a submission by a reporter
\* whose report against the target is on file, found by the handler's
\* look-up or by the insert, is answered 409 and adds no row.
C5_OneReportPerReporter ==
    /\ [](\A r \in BagToSet(reports) : CopiesIn(r, reports) = 1)
    /\ [][\A t \in Txs :
            /\ (/\ Answering(t, "report")
                /\ ExactlyOneTarget(tx'[t].postId, tx'[t].commentId)
                /\ tx'[t].reason \in Reasons
                /\ TargetLive(tx'[t].postId, tx'[t].commentId)
                /\ BagIn(Row(tx'[t].userId, tx'[t].postId, tx'[t].commentId), reports))
                  => tx'[t].status = 409
            /\ (/\ tx[t].pc = "validated" /\ tx'[t].pc = "done"
                /\ BagIn(TxRow(t), reports))
                  => tx'[t].status = 409
            /\ (tx[t].pc # "done" /\ tx'[t].pc = "done" /\ tx'[t].op = "report"
                  /\ tx'[t].status = 409)
                  => /\ reports' = reports
                     /\ BagIn(Row(tx'[t].userId, tx'[t].postId, tx'[t].commentId), reports)
         ]_vars

\* C5 witness: a second submission has been answered 409 and the
\* reporter's single row is on file.
C5_Witness ==
    \E t \in Txs :
        /\ tx[t].pc = "done" /\ tx[t].op = "report" /\ tx[t].status = 409
        /\ CopiesIn(TxRow(t), reports) = 1

\* C6: a report by the author of its target is answered 403 and creates no
\* row; no report, on file or being written, has its target's author as
\* reporter.
C6_NoSelfReport ==
    /\ [](\A r \in BagToSet(reports) :
             r.reporterId # AuthorOf(r.postId, r.commentId))
    /\ [](\A t \in Txs :
             tx[t].pc \in {"validated", "inserted", "counted", "updated"}
                => tx[t].userId # AuthorOf(tx[t].postId, tx[t].commentId))
    /\ [][\A t \in Txs :
            (/\ Answering(t, "report")
             /\ ExactlyOneTarget(tx'[t].postId, tx'[t].commentId)
             /\ tx'[t].reason \in Reasons
             /\ TargetLive(tx'[t].postId, tx'[t].commentId)
             /\ tx'[t].userId = AuthorOf(tx'[t].postId, tx'[t].commentId))
               => tx'[t].status = 403 /\ reports' = reports
         ]_vars

\* C6 witness: the author's report of their own item has been answered 403.
C6_Witness ==
    \E t \in Txs :
        /\ tx[t].pc = "done" /\ tx[t].op = "report" /\ tx[t].status = 403
        /\ ExactlyOneTarget(tx[t].postId, tx[t].commentId)
        /\ tx[t].userId = AuthorOf(tx[t].postId, tx[t].commentId)

\* C7: report creation and auto-hiding are atomic: a transaction that
\* aborts leaves no report row and the flag unchanged, and nobody sees the
\* report that takes an item to the threshold committed while the item is
\* still hidden = false.
C7_AtomicReportAndHide ==
    [][\A t \in Txs :
          /\ Aborting(t) => UNCHANGED <<reports, postHidden, comments>>
          /\ \A i \in Items :
                (/\ Committing(t) /\ On(t, i)
                 /\ Count(i) = REPORT_THRESHOLD - 1
                 /\ (Count(i))' = REPORT_THRESHOLD)
                   => (Hidden(i))']_vars

\* C8: after an admin's dismiss succeeds on a target with K >= 1 reports,
\* no report row references the target and its hidden flag is false, in the
\* same step.
C8_DismissClearsTarget ==
    [][\A t \in Txs, i \in Items :
          (Answering(t, "dismiss") /\ tx'[t].status = 200 /\ Names(t, i))
             => /\ Count(i) >= 1
                /\ (Count(i))' = 0
                /\ ~(Hidden(i))']_vars

\* C8 witness: a dismiss has succeeded on an item, which has no reports
\* and is not hidden.
C8_Witness ==
    \E t \in Txs, i \in Items :
        /\ tx[t].pc = "done" /\ tx[t].op = "dismiss" /\ tx[t].status = 200
        /\ On(t, i) /\ Count(i) = 0 /\ ~Hidden(i)

\* C9: admin unhide sets hidden = false on the report's target and leaves
\* the rows of the reports table as they were.
C9_UnhideKeepsReports ==
    [][\A t \in Txs, i \in Items :
          (Answering(t, "unhide") /\ tx'[t].status = 200 /\ Names(t, i))
             => /\ reports' = reports
                /\ ~(Hidden(i))']_vars

\* C9 witness: an unhide has succeeded on an item that still has its five
\* reports or more and is not hidden.
C9_Witness ==
    \E t \in Txs, i \in Items :
        /\ tx[t].pc = "done" /\ tx[t].op = "unhide" /\ tx[t].status = 200
        /\ On(t, i) /\ Count(i) >= REPORT_THRESHOLD /\ ~Hidden(i)

\* C10: every true -> false transition of an item's hidden flag is made by
\* an unhide or dismiss called by an admin; the same call by a non-admin is
\* answered 403 and changes neither the flag nor the reports.
C10_ClearOnlyByAdmin ==
    [][/\ \A i \in Items :
            (ItemExists(i) /\ (ItemExists(i))' /\ Hidden(i) /\ ~(Hidden(i))')
               => \E t \in Txs :
                     /\ Answering(t, "unhide") \/ Answering(t, "dismiss")
                     /\ tx'[t].status = 200
                     /\ tx'[t].userId \in Admins
                     /\ Names(t, i)
       /\ \A t \in Txs :
            (/\ Answering(t, "unhide") \/ Answering(t, "dismiss")
             /\ tx'[t].userId \notin Admins)
               => /\ tx'[t].status = 403
                  /\ UNCHANGED <<reports, postHidden, comments>>]_vars

\* C10 witness: a non-admin's unhide or dismiss has been answered 403 and
\* the reported item is still hidden.
C10_Witness ==
    \E t \in Txs :
        /\ tx[t].pc = "done" /\ tx[t].op \in {"unhide", "dismiss"}
        /\ tx[t].status = 403 /\ tx[t].userId \notin Admins
        /\ Hidden(reported)


\* ------------------------------------------------- properties: listings

\* the ids of the rows a response carries
Ids(resp) == {resp.items[k].id : k \in 1..Len(resp.items)}

\* a successful response of one of the listings in ops
Answered(ops) == response.op \in ops /\ response.status = 200

\* the response is the whole result: nothing skipped, nothing cut off
WholeResult == response.offset = 0 /\ response.limit >= Cardinality(AllPosts)

\* the content items of a state, as rows
ContentRows == PostRows \cup {CommentRow(c) : c \in {d \in DOMAIN comments : CommentExists(d)}}

OwedByAuthorFeed(x, viewer) ==
    {r.id : r \in {q \in PostRows :
                     /\ q.authorId = x /\ q.deletedAt = NULL
                     /\ ~q.isHidden \/ viewer.isAdmin \/ viewer.userId = x}}

\* C13: the author feed of author X returns only posts of X that are not
\* soft-deleted and are not hidden, or hidden while the viewer is an admin
\* or X; a whole result is exactly that set.
C13_AuthorFeedFilter ==
    Answered({"author"}) =>
        /\ Ids(response) \subseteq OwedByAuthorFeed(response.scope, response.viewer)
        /\ WholeResult => Ids(response) = OwedByAuthorFeed(response.scope, response.viewer)
        /\ \A p \in Ids(response) :
              PostRow(p).isHidden
                 => response.viewer.userId # NULL
                    /\ (response.viewer.userId = response.scope
                          \/ isAdmin(response.viewer.userId))

\* C13 witness: the author, who is no admin, has been sent their own hidden
\* post by their author feed.
C13_Witness ==
    /\ Answered({"author"}) /\ ~response.viewer.isAdmin
    /\ response.viewer.userId = response.scope
    /\ \E p \in Ids(response) : PostRow(p).isHidden

\* C14: listCommentsForPost returns a hidden comment only to an admin or to
\* the comment's author.
C14_CommentListFilter ==
    Answered({"comments"}) =>
        \A k \in 1..Len(response.items) :
            response.items[k].isHidden
               => \/ response.viewer.isAdmin
                  \/ (response.viewer.userId # NULL
                        /\ response.viewer.userId = response.items[k].authorId)

\* C15: every listing (home, topic, author feed) includes a hidden post
\* that is not soft-deleted and matches its scope when the viewer is the
\* post's author.
C15_AuthorSeesOwnHidden ==
    (Answered({"home", "topic", "author"}) /\ WholeResult) =>
        \A r \in PostRows :
            (/\ r.isHidden /\ r.deletedAt = NULL
             /\ response.viewer.userId = r.authorId
             /\ response.op = "topic" => r.primaryTopicId = response.scope
             /\ response.op = "author" => r.authorId = response.scope)
               => r.id \in Ids(response)


\* ------------------------------------- properties: moderation end to end

\* the post is on the default page of the home feed sent to viewer u
OnHomeFeed(p, u) == p \in Ids(HomeFeed(Viewer(u), NaN, NaN))

\* the post is on the default page of its author's feed as the author sees
\* it, with this value of isHidden
OnOwnFeed(p, h) ==
    \E k \in 1..Len(AuthorFeed(Viewer(PostAuthor[p]), PostAuthor[p], NaN, NaN).items) :
        LET post == AuthorFeed(Viewer(PostAuthor[p]), PostAuthor[p], NaN, NaN).items[k]
        IN post.id = p /\ post.isHidden = h

\* the users who are neither admins nor the author of post p
Bystanders(p) == {u \in Users : ~isAdmin(u) /\ u # PostAuthor[p]}

\* C16: with one request served at a time, the report that takes a post to
\* five reports hides it and the admin's unhide shows it again; while the
\* post is hidden the home feed of a user who is neither admin nor author
\* does not show it and the author's own author feed shows it with
\* isHidden = true; when it is not hidden the home feed shows it; the
\* admin's report detail carries the number of reports on file (5 after
\* the fifth report).
C16_EndToEnd ==
    /\ [][\A t \in Txs, p \in Posts :
            /\ (/\ Committing(t) /\ On(t, Target(p, NULL))
                /\ (Count(Target(p, NULL)))' = REPORT_THRESHOLD)
                  => postHidden'[p]
            /\ (/\ Answering(t, "unhide") /\ tx'[t].status = 200
                /\ Names(t, Target(p, NULL)))
                  => ~postHidden'[p]
         ]_vars
    /\ [](\A p \in Posts :
             ~postDeleted[p]
                => /\ \A g \in Bystanders(p) : OnHomeFeed(p, g) <=> ~postHidden[p]
                   /\ OnOwnFeed(p, postHidden[p]))
    /\ [](\A t \in Txs :
             (tx[t].pc = "done" /\ tx[t].op = "detail" /\ tx[t].status = 200)
                => tx[t].count = CommittedCount(tx[t].postId, tx[t].commentId))
    /\ [](\A p \in Posts :
             (Answered({"home"}) /\ response.viewer.userId \in Bystanders(p))
                => (p \in Ids(response) <=> ~postHidden[p] /\ ~postDeleted[p]))

\* C16 witness: the admin's unhide of a post with five reports has
\* succeeded and the home feed then requested by a user who is neither
\* admin nor author nor reporter shows the post.
C16_Witness ==
    \E t \in Txs, p \in Posts :
        /\ tx[t].pc = "done" /\ tx[t].op = "unhide" /\ tx[t].status = 200
        /\ On(t, Target(p, NULL)) /\ Count(Target(p, NULL)) = REPORT_THRESHOLD
        /\ Answered({"home"}) /\ response.viewer.userId \in Bystanders(p)
        /\ ~HasReport(response.viewer.userId, p, NULL)
        /\ p \in Ids(response)

\* the status codes of the submit-report errors
SubmitErrors == {400, 403, 404, 409}

\* C17: a submit-report request changes nothing while it is validated, and
\* the step that answers it with 400, 404, 403 or 409 leaves the report
\* rows and every hidden flag as they were.
C17_ErrorsChangeNothing ==
    [][\A t \in Txs :
          /\ (tx[t].pc = "idle" /\ tx'[t].pc = "validated")
                => UNCHANGED <<reports, postHidden, comments>>
          /\ (/\ tx[t].pc # "done" /\ tx'[t].pc = "done" /\ tx'[t].op = "report"
              /\ tx'[t].status \in SubmitErrors)
                => /\ tx[t].pc \in {"idle", "validated"}
                   /\ UNCHANGED <<reports, postHidden, comments>>]_vars

\* C17 witness: a duplicate found by the insert has been answered 409 after
\* validation had passed, with the reporter's one row on file.
C17_Witness ==
    \E t \in Txs, o \in Txs :
        /\ o # t
        /\ tx[t].pc = "done" /\ tx[t].op = "report" /\ tx[t].status = 409
        /\ tx[o].pc = "done" /\ tx[o].op = "report" /\ tx[o].status = 201
        /\ TxRow(o) = TxRow(t) /\ CopiesIn(TxRow(t), reports) = 1

\* C18: submit-report checks target shape, reason, target exists and is not
\* soft-deleted, not a self-report, not a duplicate, in this order, and
\* answers with the first failure; no report row is ever inserted against a
\* post that is soft-deleted at the time of the insert.
C18_ValidationOrder ==
    /\ [](\A u \in Users, p \in Posts \cup {NULL}, c \in CommentIds \cup {NULL},
            reason \in RequestReasons :
             LET st == SubmitStatus(u, p, c, reason)
                 one == (p # NULL) # (c # NULL)
                 live == IF p # NULL THEN ~postDeleted[p] ELSE comments[c] # NoComment
             IN /\ ~one => st = 400
                /\ (one /\ reason \notin Reasons) => st = 400
                /\ (one /\ reason \in Reasons /\ ~live) => st = 404
                /\ (one /\ reason \in Reasons /\ live /\ u = AuthorOf(p, c)) => st = 403
                /\ (one /\ reason \in Reasons /\ live /\ u # AuthorOf(p, c)
                      /\ BagIn(Row(u, p, c), reports)) => st = 409)
    /\ [][\A t \in Txs :
            Answering(t, "report")
               => tx'[t].status =
                     SubmitStatus(tx'[t].userId, tx'[t].postId, tx'[t].commentId,
                                  tx'[t].reason)
         ]_vars
    /\ [][\A t \in Txs :
            (tx[t].pc = "validated" /\ tx'[t].pc = "inserted" /\ tx[t].postId # NULL)
               => ~postDeleted[tx[t].postId]
         ]_vars

\* C19: every report row, on file or being written, has exactly one of
\* postId and commentId set; a submission that supplies both or neither is
\* answered 400 and creates no row.
C19_ExactlyOneTargetSet ==
    /\ [](\A r \in BagToSet(reports) : (r.postId = NULL) # (r.commentId = NULL))
    /\ [](\A t \in Txs :
             tx[t].pc \in {"validated", "inserted", "counted", "updated"}
                => (tx[t].postId = NULL) # (tx[t].commentId = NULL))
    /\ [][\A t \in Txs :
            (/\ Answering(t, "report")
             /\ (tx'[t].postId = NULL) = (tx'[t].commentId = NULL))
               => tx'[t].status = 400 /\ reports' = reports
         ]_vars

\* C19 witness: a submission naming both a post and a comment has been
\* answered 400 while the table holds a report.
C19_Witness ==
    \E t \in Txs :
        /\ tx[t].pc = "done" /\ tx[t].op = "report" /\ tx[t].status = 400
        /\ tx[t].postId # NULL /\ tx[t].commentId # NULL
        /\ reports # EmptyBag

\* the admin operations on one report
AdminOps == {"unhide", "dismiss", "detail"}

\* C20: an admin's unhide, dismiss or report detail goes ahead only when a
\* report against the target is on file and the target's row exists;
\* otherwise the admin is answered 404 and no hidden flag and no report row
\* changes.
C20_AdminFailsClosed ==
    [][\A t \in Txs :
          (tx[t].pc = "idle" /\ tx'[t].pc = "done" /\ tx'[t].op \in AdminOps
             /\ tx'[t].userId \in Admins)
             => /\ tx'[t].status \in {200, 404}
                /\ tx'[t].status = 200
                      => \E i \in Items : /\ Names(t, i) /\ ItemExists(i)
                                          /\ Count(i) >= 1
                /\ tx'[t].status = 404
                      => UNCHANGED <<reports, postHidden, postDeleted, comments>>
                /\ (\A i \in Items : Count(i) = 0) => tx'[t].status = 404]_vars

\* C20 witness: the admin has been answered 404 for a report whose target,
\* a comment, has been deleted.
C20_Witness ==
    \E t \in Txs :
        /\ tx[t].pc = "done" /\ tx[t].op \in AdminOps /\ tx[t].status = 404
        /\ tx[t].userId \in Admins
        /\ reported.commentId # NULL /\ nextCommentId > reported.commentId
        /\ ~CommentExists(reported.commentId)

\* ------------------------------------------------ properties: pagination

\* the three feeds
Feeds == {"home", "topic", "author"}

\* the posts the query of the answered feed selects for its viewer
Selected(resp) ==
    CASE resp.op = "home" -> {r \in PostRows : HomeWhere(r, resp.viewer)}
      [] resp.op = "topic" -> {r \in PostRows : TopicWhere(r, resp.viewer, resp.scope)}
      [] resp.op = "author" -> {r \in PostRows : AuthorWhere(r, resp.viewer, resp.scope)}
      [] OTHER -> {}

\* C21: a feed's pagination.hasMore is true exactly when a post the viewer
\* can see lies at position offset + limit or later, and false at the end of
\* the feed, also when the number of visible posts is a multiple of limit.
C21_HasMoreExact ==
    Answered(Feeds) =>
        (response.hasMore
            <=> Cardinality(Selected(response)) > response.offset + response.limit)

\* the page of the same feed that follows the answered one
FollowingPage(resp) ==
    CASE resp.op = "home" ->
            HomeFeed(resp.viewer, Num(resp.limit), Num(resp.offset + resp.limit))
      [] resp.op = "topic" ->
            TopicFeed(resp.viewer, resp.scope, Num(resp.limit), Num(resp.offset + resp.limit))
      [] resp.op = "author" ->
            AuthorFeed(resp.viewer, resp.scope, Num(resp.limit), Num(resp.offset + resp.limit))
      [] OTHER -> NoResponse

\* post a may be received before post b: it is newer, or as old with no
\* fewer votes
MayPrecede(a, b) ==
    a.createdAt > b.createdAt \/ (a.createdAt = b.createdAt /\ a.voteCount >= b.voteCount)

\* C22: any two posts received from one feed over unchanged data, on one
\* page or on consecutive pages, come newest first and, among posts of one
\* createdAt, the one with more votes first.
C22_FeedOrder ==
    Answered(Feeds) =>
        LET received == response.items \o FollowingPage(response).items
        IN \A j, k \in 1..Len(received) : j < k => MayPrecede(received[j], received[k])

\* C23: the page size of a feed is an integer from 1 to 100, 20 when no limit
\* is sent; a successful feed carries at most min(limit, 100) posts; a limit
\* below 1 or a negative offset is answered 400 with no posts.
C23_PageSize ==
    response.op \in Feeds =>
        LET ql == response.query[1]
            qo == response.query[2]
        IN /\ response.status = 200 =>
                 /\ response.limit \in 1..MAX_FEED_LIMIT
                 /\ ql.nan => response.limit = DEFAULT_FEED_LIMIT
                 /\ ~ql.nan => response.limit = Min(ql.n, MAX_FEED_LIMIT)
                 /\ Len(response.items) <= response.limit
           /\ ((~ql.nan /\ ql.n < 1) \/ (~qo.nan /\ qo.n < 0))
                 => response.status = 400 /\ response.items = <<>>

\* the comments of the post the answered comment list is about, oldest first
CommentsOf(postId) ==
    OldestFirst({r \in {CommentRow(c) : c \in {d \in DOMAIN comments : CommentExists(d)}} :
                   r.postId = postId})

\* C30: for every limit and offset sent, zero and negative ones too,
\* listCommentsForPost returns at most 100 comments (50 when no limit is
\* sent), oldest first, from a non-negative offset on, and hasMore is true
\* exactly when comments remain behind offset + limit; for a post that is
\* missing or soft-deleted it answers 404 with no comments.
C30_CommentPage ==
    response.op = "comments" =>
        LET all == CommentsOf(response.scope)
            last == Min(response.offset + response.limit, Len(all))
        IN /\ (response.scope \notin Posts \/ postDeleted[response.scope])
                 => response.status = 404 /\ response.items = <<>>
           /\ response.status = 200 =>
                 /\ response.limit \in 1..MAX_COMMENT_LIMIT
                 /\ response.query[1].nan => response.limit = DEFAULT_COMMENT_LIMIT
                 /\ response.offset >= 0
                 /\ Len(response.items) <= response.limit
                 /\ response.items = SubSeq(all, response.offset + 1, last)
                 /\ response.hasMore <=> response.offset + response.limit < Len(all)

\* ------------------------------------------------- properties: comments

\* this step answers a request to one of the comment handlers in ops
Replying(ops) == response = NoResponse /\ response'.op \in ops

\* the string has no blank at either end
Trimmed(s) == s = <<>> \/ (Head(s) # " " /\ s[Len(s)] # " ")

\* the content the answered request carried is a string of 20 characters
\* or more once trimmed
GoodBody(resp) == resp.body.str /\ Len(Trim(resp.body.chars)) >= MIN_CONTENT_LENGTH

\* the ids a comment request may name
NamedIds == DOMAIN comments \cup {NoSuchId}

\* no vote and no report row names comment c
Unreferenced(c) ==
    /\ \A v \in votes : v.commentId # c
    /\ \A r \in BagToSet(reports) : r.commentId # c

WithEmail(email) == {u \in users : u.email = email}

\* C26: after any number of runs of bootstrapSystemUsers, one after the
\* other or two at once interleaved at their database calls, at most one
\* user has the system email and at most one the bot email; a run that
\* finds both present creates nothing; and no run throws to its caller, also
\* when a database call fails.
C26_BootstrapIdempotent ==
    /\ Cardinality(WithEmail(SYSTEM_USER_EMAIL)) <= 1
    /\ Cardinality(WithEmail(BOT_USER_EMAIL)) <= 1
    /\ \A r \in Runs :
          /\ boot[r].found = {SYSTEM_USER_EMAIL, BOT_USER_EMAIL} => boot[r].created = {}
          /\ boot[r].outcome \in {"none", "resolved"}
          /\ boot[r].pc = "returned" => boot[r].outcome = "resolved"

\* C26 witness: two runs started on an empty table have both returned, one
\* of them stopped by the other's system user, and both users exist once.
C26_Witness ==
    /\ \A r \in Runs : boot[r].pc = "returned"
    /\ \E r \in Runs : boot[r].created = {} /\ boot[r].error = "P2002"
    /\ \E r \in Runs : boot[r].created = {SYSTEM_USER_EMAIL, BOT_USER_EMAIL}
    /\ Cardinality(users) = 2

Exposed(i) == Count(i) >= REPORT_THRESHOLD /\ ~Hidden(i)

\* C28: an item with five reports or more on file comes to be not hidden
\* only by an admin's unhide, and the next report against it that commits
\* hides it again.
C28_RehideAfterUnhide ==
    [][\A i \in Items :
          /\ (~Exposed(i) /\ (Exposed(i))')
                => \E t \in Txs : /\ Answering(t, "unhide") /\ Names(t, i)
                                  /\ tx'[t].status = 200
          /\ \A t \in Txs :
                (Exposed(i) /\ Committing(t) /\ On(t, i)) => (Hidden(i))'
      ]_vars

\* the report rows that reference item i, with their numbers
ReportsOn(b, i) ==
    [r \in {q \in BagToSet(b) : q.postId = i.postId /\ q.commentId = i.commentId} |-> b[r]]

\* the item handler t is working on or has answered for in this step
Touches(t, i) == On(t, i) \/ Names(t, i)

\* this step deletes item i's row from its table
Deleting(i) == i.commentId # NULL /\ CommentExists(i.commentId) /\ ~(CommentExists(i.commentId))'

\* C29: a step of submit-report, unhide or dismiss on target T leaves the
\* hidden flag and the report rows of every other item as they are and
\* changes no deletedAt and deletes no content; a report row on file stays
\* as it is in every step but the dismiss of its target's reports and the
\* deletion of its target.
C29_ModerationFrame ==
    [][/\ \A t \in Txs :
             tx'[t] # tx[t] =>
                /\ \A i \in Items :
                      ~Touches(t, i) => /\ (Hidden(i))' = Hidden(i)
                                        /\ ReportsOn(reports', i) = ReportsOn(reports, i)
                /\ UNCHANGED <<postDeleted, others>>
                /\ \A c \in CommentIds : (CommentExists(c))' = CommentExists(c)
       /\ \A i \in Items :
             \/ \A r \in DOMAIN ReportsOn(reports, i) :
                   BagIn(r, reports') /\ reports'[r] >= reports[r]
             \/ \E t \in Txs : /\ Answering(t, "dismiss") /\ Names(t, i)
                               /\ tx'[t].status = 200
             \/ Deleting(i)
      ]_vars

\* C29 witness: the reports against the post have just been dismissed
\* while reports against its comment are on file.
C29_Witness ==
    \E t \in Txs :
        /\ tx[t].pc = "done" /\ tx[t].op = "dismiss" /\ tx[t].status = 200
        /\ tx[t].postId # NULL
        /\ Count(Target(tx[t].postId, NULL)) = 0
        /\ \E c \in CommentIds : CommentExists(c) /\ Count(Target(NULL, c)) >= 1

====
